---- MODULE Spec2Model ----
(***************************************************************************)
(* Model of exonum/src/events/mod.rs: the EventsAggregator stream, which   *)
(* merges a timeout, a network and an api stream into one stream of Event  *)
(* values.  One action, Step, is one call of EventsAggregator::poll.       *)
(* It also models the order of TimeoutRequest and the priority queue of    *)
(* the timeout scheduler that the order is published for.                  *)
(*                                                                         *)
(* The three child streams are type parameters of the aggregator           *)
(* (S1, S2, S3: Stream), so their behaviour is the environment.  Each is   *)
(* modelled as the sequence of outcomes its next polls will report: an     *)
(* item, not-ready, an error, or the end of the stream.                    *)
(***************************************************************************)
EXTENDS Integers, Sequences, FiniteSets

VARIABLES
    done,        \* EventsAggregator.done
    timeout,     \* EventsAggregator.timeout: outcomes the stream has yet to report
    network,     \* EventsAggregator.network
    api,         \* EventsAggregator.api
    probes,      \* per child stream, how many times it has been polled
    result,      \* what the last call of poll returned
    nsteps,      \* number of calls of poll made so far
    emitted,     \* the Events returned so far, in order
    start,       \* the child streams the aggregator was constructed with
    prev,        \* the aggregator, probe counts, result and Events as they were before the last call
    exhaustedAt, \* number of the first call in which a child stream reported its end, 0 if none
    heap,        \* the TimeoutRequests waiting in the scheduler's priority queue
    heap0,       \* the TimeoutRequests the queue was filled with, in insertion order
    popped       \* the TimeoutRequests extracted from the queue so far, in order

aggregatorVars ==
    <<done, timeout, network, api, probes, result, nsteps, emitted, start, prev, exhaustedAt>>

queueVars == <<heap, heap0, popped>>

vars == <<aggregatorVars, queueVars>>

----------------------------------------------------------------------------
(* Bounds *)

\* total number of outcomes, over the three child streams, before their ends
MaxTotal == 4
\* number of calls of poll in a run of Spec
MaxSteps == 6
\* the same two bounds for SpecEnded, whose runs go on long after the stream ended
EndedTotal == 2
\* number of consecutive calls after the end of the stream that SpecEnded observes
EndedRun == 100
EndedSteps == EndedTotal + 1 + EndedRun
\* tokens are 1..MaxToken, and the queue is filled with at most MaxHeap
\* TimeoutRequests
MaxToken == 3
MaxHeap == 3
\* the deadlines requests are made for
DeadlineSet == {1, 3, 5}
\* in the unbounded runs of SpecLive the timeout stream holds at most
\* LiveQueue outcomes that it has yet to report, the other two one less
LiveQueue == 2
\* the values of the network and api items that arrive in SpecLive
LiveItems == {1, 2}

----------------------------------------------------------------------------
(* Values *)

Sources == {"timeout", "network", "api"}

\* Outcomes of polling a child stream (futures::Poll<Option<Item>, Error>)
SrcItem(v)  == [kind |-> "Item", val |-> v]        \* Ok(Async::Ready(Some(v)))
SrcNotReady == [kind |-> "NotReady", val |-> 0]    \* Ok(Async::NotReady)
SrcErr(e)   == [kind |-> "Err", val |-> e]         \* Err(e)
SrcEnd      == [kind |-> "End", val |-> 0]         \* Ok(Async::Ready(None))

\* Event::Network built with the variant of an api event
EventNetwork_asApi(item) == [variant |-> "Api", val |-> item]

\* Event::Api built with the variant of a network event
EventApi_asNetwork(item) == [variant |-> "Network", val |-> item]

\* enum Event
EventNetwork(item) == [variant |-> "Network", val |-> item]
EventTimeout(item) == [variant |-> "Timeout", val |-> item]
EventApi(item)     == [variant |-> "Api", val |-> item]
NoEvent            == [variant |-> "None", val |-> 0]

\* Values returned by EventsAggregator::poll
ReadySome(ev) == [kind |-> "Item", event |-> ev, err |-> 0]          \* Ok(Async::Ready(Some(ev)))
ReadyNone     == [kind |-> "Ended", event |-> NoEvent, err |-> 0]    \* Ok(Async::Ready(None))
NotReady      == [kind |-> "Pending", event |-> NoEvent, err |-> 0]  \* Ok(Async::NotReady)
Failed(e)     == [kind |-> "Err", event |-> NoEvent, err |-> e]      \* Err(e)
NotCalled     == [kind |-> "None", event |-> NoEvent, err |-> 0]     \* before the first call

----------------------------------------------------------------------------
(* Child streams *)

\* What a child stream reports when polled now.  A stream with nothing left
\* to report is not ready; a stream that reached its end stays at its end.
NextOutcome(s) == IF s = <<>> THEN SrcNotReady ELSE Head(s)

\* The child stream after that poll.
AfterPoll(s) == IF s = <<>> \/ Head(s).kind = "End" THEN s ELSE Tail(s)

----------------------------------------------------------------------------
(* EventsAggregator::poll *)

\* The value of a call: the aggregator after it, what it returns, and the
\* child streams it polled.
Return(self, ret, probed) == [self |-> self, ret |-> ret, probed |-> probed]

\* pollApi reporting the end of the api stream without finishing
pollApi_endNotLatched(self) ==
    LET out == NextOutcome(self.api)
        s1  == [self EXCEPT !.api = AfterPoll(self.api)]
    IN  CASE out.kind = "Err"      -> Return(s1, Failed(out.val), {"api"})
          [] out.kind = "Item"     -> Return(s1, ReadySome(EventApi(out.val)), {"api"})
          [] out.kind = "End"      -> Return(s1, ReadyNone, {"api"})
          [] out.kind = "NotReady" -> Return(s1, NotReady, {"api"})

\* Check api events
pollApi(self) ==
    LET out == NextOutcome(self.api)
        s1  == [self EXCEPT !.api = AfterPoll(self.api)]
    IN  CASE out.kind = "Err"      -> Return(s1, Failed(out.val), {"api"})
          [] out.kind = "Item"     -> Return(s1, ReadySome(EventApi(out.val)), {"api"})
          [] out.kind = "End"      -> Return([s1 EXCEPT !.done = TRUE], ReadyNone, {"api"})
          [] out.kind = "NotReady" -> Return(s1, NotReady, {"api"})

\* pollNetwork that goes on to the api stream when the network stream ended
pollNetwork_endFallsThrough(self) ==
    LET out == NextOutcome(self.network)
        s1  == [self EXCEPT !.network = AfterPoll(self.network)]
        r   == pollApi(s1)
    IN  CASE out.kind = "Err"      -> Return(s1, Failed(out.val), {"network"})
          [] out.kind = "Item"     -> Return(s1, ReadySome(EventNetwork(out.val)), {"network"})
          [] out.kind \in {"End", "NotReady"} ->
                Return(r.self, r.ret, r.probed \cup {"network"})

\* pollNetwork returning a fixed error in place of the one the stream reported
pollNetwork_errReplaced(self) ==
    LET out == NextOutcome(self.network)
        s1  == [self EXCEPT !.network = AfterPoll(self.network)]
    IN  CASE out.kind = "Err"      -> Return(s1, Failed(1), {"network"})
          [] out.kind = "Item"     -> Return(s1, ReadySome(EventNetwork(out.val)), {"network"})
          [] out.kind = "End"      -> Return([s1 EXCEPT !.done = TRUE], ReadyNone, {"network"})
          [] out.kind = "NotReady" ->
                LET r == pollApi(s1) IN Return(r.self, r.ret, r.probed \cup {"network"})

\* pollNetwork finishing on an error as it does on the end of the stream
pollNetwork_errLatched(self) ==
    LET out == NextOutcome(self.network)
        s1  == [self EXCEPT !.network = AfterPoll(self.network)]
    IN  CASE out.kind = "Err"      -> Return([s1 EXCEPT !.done = TRUE], Failed(out.val), {"network"})
          [] out.kind = "Item"     -> Return(s1, ReadySome(EventNetwork(out.val)), {"network"})
          [] out.kind = "End"      -> Return([s1 EXCEPT !.done = TRUE], ReadyNone, {"network"})
          [] out.kind = "NotReady" ->
                LET r == pollApi(s1) IN Return(r.self, r.ret, r.probed \cup {"network"})

\* pollNetwork that serves its item and also takes what the api stream has
pollNetwork_drainsApi(self) ==
    LET out == NextOutcome(self.network)
        s1  == [self EXCEPT !.network = AfterPoll(self.network)]
    IN  CASE out.kind = "Err"      -> Return(s1, Failed(out.val), {"network"})
          [] out.kind = "Item"     ->
                Return([s1 EXCEPT !.api = AfterPoll(self.api)],
                       ReadySome(EventNetwork(out.val)), {"network", "api"})
          [] out.kind = "End"      -> Return([s1 EXCEPT !.done = TRUE], ReadyNone, {"network"})
          [] out.kind = "NotReady" ->
                LET r == pollApi(s1) IN Return(r.self, r.ret, r.probed \cup {"network"})

\* pollNetwork that returns NotReady without checking api events
pollNetwork_skipsApi(self) ==
    LET out == NextOutcome(self.network)
        s1  == [self EXCEPT !.network = AfterPoll(self.network)]
    IN  CASE out.kind = "Err"      -> Return(s1, Failed(out.val), {"network"})
          [] out.kind = "Item"     -> Return(s1, ReadySome(EventNetwork(out.val)), {"network"})
          [] out.kind = "End"      -> Return([s1 EXCEPT !.done = TRUE], ReadyNone, {"network"})
          [] out.kind = "NotReady" -> Return(s1, NotReady, {"network"})

\* pollNetwork reporting the end of the network stream without finishing
pollNetwork_endNotLatched(self) ==
    LET out == NextOutcome(self.network)
        s1  == [self EXCEPT !.network = AfterPoll(self.network)]
    IN  CASE out.kind = "Err"      -> Return(s1, Failed(out.val), {"network"})
          [] out.kind = "Item"     -> Return(s1, ReadySome(EventNetwork(out.val)), {"network"})
          [] out.kind = "End"      -> Return(s1, ReadyNone, {"network"})
          [] out.kind = "NotReady" ->
                LET r == pollApi(s1) IN Return(r.self, r.ret, r.probed \cup {"network"})

\* Check network events
pollNetwork(self) ==
    LET out == NextOutcome(self.network)
        s1  == [self EXCEPT !.network = AfterPoll(self.network)]
    IN  CASE out.kind = "Err"      -> Return(s1, Failed(out.val), {"network"})
          [] out.kind = "Item"     -> Return(s1, ReadySome(EventNetwork(out.val)), {"network"})
          [] out.kind = "End"      -> Return([s1 EXCEPT !.done = TRUE], ReadyNone, {"network"})
          [] out.kind = "NotReady" ->
                LET r == pollApi(s1) IN Return(r.self, r.ret, r.probed \cup {"network"})

\* pollTimeout that lets a ready network item go first
pollTimeout_yieldsToNetwork(self) ==
    LET out == NextOutcome(self.timeout)
        s1  == [self EXCEPT !.timeout = AfterPoll(self.timeout)]
    IN  IF out.kind = "Item" /\ NextOutcome(self.network).kind = "Item"
        THEN Return([self EXCEPT !.network = AfterPoll(self.network)],
                    ReadySome(EventNetwork(NextOutcome(self.network).val)), {"network"})
        ELSE CASE out.kind = "Err"      -> Return(s1, Failed(out.val), {"timeout"})
               [] out.kind = "Item"     -> Return(s1, ReadySome(EventTimeout(out.val)), {"timeout"})
               [] out.kind = "End"      -> Return([s1 EXCEPT !.done = TRUE], ReadyNone, {"timeout"})
               [] out.kind = "NotReady" ->
                     LET r == pollNetwork(s1)
                     IN  Return(r.self, r.ret, r.probed \cup {"timeout"})

\* pollTimeout that returns NotReady without checking the other streams
pollTimeout_neverFallsThrough(self) ==
    LET out == NextOutcome(self.timeout)
        s1  == [self EXCEPT !.timeout = AfterPoll(self.timeout)]
    IN  CASE out.kind = "Err"      -> Return(s1, Failed(out.val), {"timeout"})
          [] out.kind = "Item"     -> Return(s1, ReadySome(EventTimeout(out.val)), {"timeout"})
          [] out.kind = "End"      -> Return([s1 EXCEPT !.done = TRUE], ReadyNone, {"timeout"})
          [] out.kind = "NotReady" -> Return(s1, NotReady, {"timeout"})

\* pollTimeout that checks the other streams before it returns its error
pollTimeout_errDeferred(self) ==
    LET out == NextOutcome(self.timeout)
        s1  == [self EXCEPT !.timeout = AfterPoll(self.timeout)]
        r   == pollNetwork(s1)
    IN  CASE out.kind = "Err"      ->
                Return(r.self, Failed(out.val), r.probed \cup {"timeout"})
          [] out.kind = "Item"     -> Return(s1, ReadySome(EventTimeout(out.val)), {"timeout"})
          [] out.kind = "End"      -> Return([s1 EXCEPT !.done = TRUE], ReadyNone, {"timeout"})
          [] out.kind = "NotReady" -> Return(r.self, r.ret, r.probed \cup {"timeout"})

\* pollTimeout that goes on to the network stream when the timeout stream ended
pollTimeout_endFallsThrough(self) ==
    LET out == NextOutcome(self.timeout)
        s1  == [self EXCEPT !.timeout = AfterPoll(self.timeout)]
        r   == pollNetwork(s1)
    IN  CASE out.kind = "Err"      -> Return(s1, Failed(out.val), {"timeout"})
          [] out.kind = "Item"     -> Return(s1, ReadySome(EventTimeout(out.val)), {"timeout"})
          [] out.kind \in {"End", "NotReady"} ->
                Return(r.self, r.ret, r.probed \cup {"timeout"})

\* pollTimeout polling the network stream before it looks at its own outcome
pollTimeout_eager(self) ==
    LET out == NextOutcome(self.timeout)
        s1  == [self EXCEPT !.timeout = AfterPoll(self.timeout)]
        r   == pollNetwork(s1)
    IN  CASE out.kind = "Err"      -> Return(s1, Failed(out.val), {"timeout"})
          [] out.kind = "Item"     ->
                Return(r.self, ReadySome(EventTimeout(out.val)), r.probed \cup {"timeout"})
          [] out.kind = "End"      -> Return([s1 EXCEPT !.done = TRUE], ReadyNone, {"timeout"})
          [] out.kind = "NotReady" -> Return(r.self, r.ret, r.probed \cup {"timeout"})

\* Check timeout events
pollTimeout(self) ==
    LET out == NextOutcome(self.timeout)
        s1  == [self EXCEPT !.timeout = AfterPoll(self.timeout)]
    IN  CASE out.kind = "Err"      -> Return(s1, Failed(out.val), {"timeout"})
          [] out.kind = "Item"     -> Return(s1, ReadySome(EventTimeout(out.val)), {"timeout"})
          [] out.kind = "End"      -> Return([s1 EXCEPT !.done = TRUE], ReadyNone, {"timeout"})
          [] out.kind = "NotReady" ->
                LET r == pollNetwork(s1) IN Return(r.self, r.ret, r.probed \cup {"timeout"})

\* poll that polls the timeout stream before it tests done
poll_probesWhenDone(self) ==
    IF self.done
    THEN Return([self EXCEPT !.timeout = AfterPoll(self.timeout)], ReadyNone, {"timeout"})
    ELSE pollTimeout(self)

\* poll without the test of done
poll_noLatch(self) == pollTimeout(self)

poll(self) ==
    IF self.done
    THEN Return(self, ReadyNone, {})
    ELSE pollTimeout(self)

----------------------------------------------------------------------------
(* Construction *)

OutcomeKinds == {"Item", "NotReady", "Err"}

\* The child stream reporting the outcomes of the kinds ks, in order, and
\* then its end if ends.  The k-th outcome carries the value k.
Script(ks, ends) ==
    [i \in 1..Len(ks) |->
        CASE ks[i] = "Item"     -> SrcItem(i)
          [] ks[i] = "Err"      -> SrcErr(i)
          [] ks[i] = "NotReady" -> SrcNotReady]
    \o (IF ends THEN <<SrcEnd>> ELSE <<>>)

Scripts(n) == {Script(ks, e) : ks \in [1..n -> OutcomeKinds], e \in BOOLEAN}

\* EventsAggregator::new
new(t, n, a) == [done |-> FALSE, timeout |-> t, network |-> n, api |-> a]

Self == [done |-> done, timeout |-> timeout, network |-> network, api |-> api]

InitWith(total) ==
    /\ \E lt \in 0..total, ln \in 0..total, la \in 0..total :
          /\ lt + ln + la <= total
          /\ \E t \in Scripts(lt), n \in Scripts(ln), a \in Scripts(la) :
                LET self == new(t, n, a)
                IN  /\ done = self.done
                    /\ timeout = self.timeout
                    /\ network = self.network
                    /\ api = self.api
                    /\ start = self
                    /\ prev = [self |-> self, probes |-> [s \in Sources |-> 0],
                               result |-> NotCalled, emitted |-> <<>>]
    /\ probes = [s \in Sources |-> 0]
    /\ result = NotCalled
    /\ nsteps = 0
    /\ emitted = <<>>
    /\ exhaustedAt = 0
    /\ heap = <<>>
    /\ heap0 = <<>>
    /\ popped = <<>>

Init == InitWith(MaxTotal)

----------------------------------------------------------------------------
(* One call of poll by the driver *)

StepWithin(limit) ==
    /\ nsteps < limit
    /\ LET r == poll(Self)
       IN  /\ done' = r.self.done
           /\ timeout' = r.self.timeout
           /\ network' = r.self.network
           /\ api' = r.self.api
           /\ probes' = [s \in Sources |-> probes[s] + (IF s \in r.probed THEN 1 ELSE 0)]
           /\ result' = r.ret
           /\ emitted' = IF r.ret.kind = "Item" THEN Append(emitted, r.ret.event) ELSE emitted
           /\ exhaustedAt' =
                 IF exhaustedAt = 0 /\ \E s \in r.probed : NextOutcome(Self[s]).kind = "End"
                 THEN nsteps + 1
                 ELSE exhaustedAt
    /\ nsteps' = nsteps + 1
    /\ prev' = [self |-> Self, probes |-> probes, result |-> result, emitted |-> emitted]
    /\ UNCHANGED start
    /\ UNCHANGED queueVars

Step == StepWithin(MaxSteps)

Next == Step

Spec == Init /\ [][Next]_vars

\* Runs that go on for EndedRun calls and more after the stream ended.
InitEnded == InitWith(EndedTotal)

StepEnded == StepWithin(EndedSteps)

NextEnded == StepEnded

SpecEnded == InitEnded /\ [][NextEnded]_vars

----------------------------------------------------------------------------
(* TimeoutRequest and its order *)

\* std::cmp::Ordering::reverse
reverse(o) ==
    CASE o = "Less"    -> "Greater"
      [] o = "Equal"   -> "Equal"
      [] o = "Greater" -> "Less"

\* Ord for SystemTime: deadlines are points in time, here integers
timeCmp(x, y) == IF x < y THEN "Less" ELSE IF x = y THEN "Equal" ELSE "Greater"

\* Ord for NodeTimeout: the token type's own total order, here that of integers
tokenCmp(x, y) == IF x < y THEN "Less" ELSE IF x = y THEN "Equal" ELSE "Greater"

\* Ord for the pair (&SystemTime, &NodeTimeout): lexicographic
tupleCmp(p, q) ==
    IF timeCmp(p[1], q[1]) # "Equal" THEN timeCmp(p[1], q[1]) ELSE tokenCmp(p[2], q[2])

\* struct TimeoutRequest(pub SystemTime, pub NodeTimeout)
TimeoutRequest(time, token) == <<time, token>>

TimeoutRequests ==
    {TimeoutRequest(d, k) : d \in DeadlineSet, k \in 1..MaxToken}

\* derived PartialEq for TimeoutRequest
eq(a, b) == a[1] = b[1] /\ a[2] = b[2]

\* cmp without the reverse
cmp_notReversed(a, b) == tupleCmp(<<a[1], a[2]>>, <<b[1], b[2]>>)

\* cmp that compares the deadlines alone
cmp_deadlineOnly(a, b) == reverse(timeCmp(a[1], b[1]))

\* Ord::cmp for TimeoutRequest
cmp(a, b) == reverse(tupleCmp(<<a[1], a[2]>>, <<b[1], b[2]>>))

\* partial_cmp as #[derive(PartialOrd)] would give it: the natural order
partial_cmp_derived(a, b) ==
    [some |-> TRUE, val |-> tupleCmp(<<a[1], a[2]>>, <<b[1], b[2]>>)]

\* PartialOrd::partial_cmp for TimeoutRequest
partial_cmp(a, b) == [some |-> TRUE, val |-> cmp(a, b)]

----------------------------------------------------------------------------
(* The scheduler's priority queue, a largest-element-first queue under cmp *)

\* The sequence q without its i-th element.
Without(q, i) == SubSeq(q, 1, i - 1) \o SubSeq(q, i + 1, Len(q))

\* The queue is filled with the requests rs, in that order.
InitQueue ==
    /\ \E n \in 0..MaxHeap : \E rs \in [1..n -> TimeoutRequests] :
          /\ heap = rs
          /\ heap0 = rs
    /\ popped = <<>>
    /\ done = FALSE
    /\ timeout = <<>>
    /\ network = <<>>
    /\ api = <<>>
    /\ start = new(<<>>, <<>>, <<>>)
    /\ prev = [self |-> new(<<>>, <<>>, <<>>), probes |-> [s \in Sources |-> 0],
               result |-> NotCalled, emitted |-> <<>>]
    /\ probes = [s \in Sources |-> 0]
    /\ result = NotCalled
    /\ nsteps = 0
    /\ emitted = <<>>
    /\ exhaustedAt = 0

\* Extract the greatest request of the queue under cmp.
Pop ==
    /\ heap # <<>>
    /\ \E i \in 1..Len(heap) :
          /\ \A j \in 1..Len(heap) : cmp(heap[i], heap[j]) # "Less"
          /\ popped' = Append(popped, heap[i])
          /\ heap' = Without(heap, i)
    /\ UNCHANGED heap0
    /\ UNCHANGED aggregatorVars

NextQueue == Pop

SpecQueue == InitQueue /\ [][NextQueue]_vars

----------------------------------------------------------------------------
(* Runs without end: the driver keeps calling poll while outcomes arrive *)

\* What child stream src may hold in SpecLive, and the values of its items.
Capacity(src) == IF src = "timeout" THEN LiveQueue ELSE LiveQueue - 1

ItemsOf(src) == IF src = "timeout" THEN {1} ELSE LiveItems

\* The network and the api stream start with nothing ready, the timeout
\* stream with an item.
InitLive ==
    /\ \E t \in {<<SrcItem(v)>> : v \in ItemsOf("timeout")} :
          LET self == new(t, <<>>, <<>>)
          IN  /\ done = self.done
              /\ timeout = self.timeout
              /\ network = self.network
              /\ api = self.api
              /\ start = self
              /\ prev = [self |-> self, probes |-> [s \in Sources |-> 0],
                         result |-> NotCalled, emitted |-> <<>>]
    /\ probes = [s \in Sources |-> 0]
    /\ result = NotCalled
    /\ nsteps = 0
    /\ emitted = <<>>
    /\ exhaustedAt = 0
    /\ heap = <<>>
    /\ heap0 = <<>>
    /\ popped = <<>>

\* What SpecLive does not record: the history of the calls.
liveFrozen == <<nsteps, emitted, start, prev, exhaustedAt, queueVars>>

\* Child stream src has room for one more outcome and has not ended.
Open(src) ==
    /\ Len(Self[src]) < Capacity(src)
    /\ \A i \in DOMAIN Self[src] : Self[src][i].kind # "End"

\* Child stream src gets the outcome o to report after those it holds.
Receive(src, o) ==
    /\ Open(src)
    /\ timeout' = IF src = "timeout" THEN Append(timeout, o) ELSE timeout
    /\ network' = IF src = "network" THEN Append(network, o) ELSE network
    /\ api' = IF src = "api" THEN Append(api, o) ELSE api
    /\ UNCHANGED <<done, probes, result>>
    /\ UNCHANGED liveFrozen

\* An item becomes ready in a child stream.
Arrive == \E src \in Sources : \E v \in ItemsOf(src) : Receive(src, SrcItem(v))

\* A child stream fails.
Fail == \E src \in Sources : Receive(src, SrcErr(1))

\* A child stream comes to its end.
Close == \E src \in Sources : Receive(src, SrcEnd)

\* One call of poll by the driver.  Of the probe counts SpecLive keeps
\* whether the stream was polled at all.
StepLive ==
    /\ LET r == poll(Self)
       IN  /\ done' = r.self.done
           /\ timeout' = r.self.timeout
           /\ network' = r.self.network
           /\ api' = r.self.api
           /\ probes' = [s \in Sources |->
                            IF s \in r.probed /\ probes[s] = 0
                            THEN probes[s] + 1
                            ELSE probes[s]]
           /\ result' = r.ret
    /\ UNCHANGED liveFrozen

NextLive ==
    \/ StepLive
    \/ Arrive
    \/ Fail
    \/ Close

\* The driver keeps calling poll.
SpecLive == InitLive /\ [][NextLive]_vars /\ WF_vars(StepLive)

----------------------------------------------------------------------------
(* What the last call saw *)

\* At least one call of poll has been made.
Called == nsteps > 0

\* The aggregator was not finished when the last call was made.
WasLive == Called /\ ~prev.self.done

\* What child stream s would have reported to a poll during the last call.
Out(s) == NextOutcome(prev.self[s])

\* The last call polled child stream s.
Probed(s) == probes[s] = prev.probes[s] + 1

\* The last call returned the Event of the given variant wrapping item.
Returned(variant, item) ==
    /\ result.kind = "Item"
    /\ result.event.variant = variant
    /\ result.event.val = item
    /\ result.err = 0

\* The last call left child stream s alone.
Untouched(s) == probes[s] = prev.probes[s] /\ Self[s] = prev.self[s]

----------------------------------------------------------------------------
(* C1 *)

\* C1: the finished flag is a one-way latch.  A call made while done is true
\* leaves done true and returns Ready(None), whatever the child streams
\* would report.
C1_FinishedLatch ==
    (Called /\ prev.self.done) => (done /\ result = ReadyNone)

\* A call was made on a finished aggregator while the timeout stream had an
\* item ready and another stream had an error ready.
C1_Witness ==
    /\ Called
    /\ prev.self.done
    /\ result = ReadyNone
    /\ Out("timeout").kind = "Item"
    /\ \E s \in {"network", "api"} : Out(s).kind = "Err"

----------------------------------------------------------------------------
(* C2 *)

\* C2: strict priority within one call.  If the timeout stream yields an item
\* the call returns Event::Timeout of it and neither the network nor the api
\* stream is polled; if the timeout stream is not ready and the network
\* stream yields an item the call returns Event::Network of it and the api
\* stream is not polled.
C2_StrictPriority ==
    WasLive =>
        /\ Out("timeout").kind = "Item" =>
              /\ Returned("Timeout", Out("timeout").val)
              /\ Untouched("network")
              /\ Untouched("api")
        /\ (Out("timeout").kind = "NotReady" /\ Out("network").kind = "Item") =>
              /\ Returned("Network", Out("network").val)
              /\ Untouched("api")

\* The timeout and the network stream both had an item ready, the api stream
\* had one too, and the call returned the timeout item.
C2_Witness ==
    /\ WasLive
    /\ Out("timeout").kind = "Item"
    /\ Out("network").kind = "Item"
    /\ Out("api").kind = "Item"
    /\ result.kind = "Item"
    /\ result.event.variant = "Timeout"
    /\ probes["network"] = 0

----------------------------------------------------------------------------
(* C3 *)

\* C3: first-finish termination.  From the call in which a child stream
\* first reports its end, that call and every later call return Ready(None)
\* and the aggregator is finished, whatever the other two streams hold.
C3_FirstFinish ==
    exhaustedAt # 0 => (done /\ result = ReadyNone)

\* EndedRun calls and more were made after the timeout stream reported its
\* end, while one of the other streams had an item and the other an error.
C3_Witness ==
    /\ exhaustedAt # 0
    /\ nsteps >= exhaustedAt + EndedRun
    /\ result = ReadyNone
    /\ {NextOutcome(network).kind, NextOutcome(api).kind} = {"Item", "Err"}

----------------------------------------------------------------------------
(* C4 *)

\* The first child stream, in the order timeout, network, api, that reports
\* something other than not-ready to the last call reports its end.
EndComesFirst ==
    \/ Out("timeout").kind = "End"
    \/ Out("timeout").kind = "NotReady" /\ Out("network").kind = "End"
    \/ /\ Out("timeout").kind = "NotReady"
       /\ Out("network").kind = "NotReady"
       /\ Out("api").kind = "End"

\* C4 as stated: a call made while at least one child stream is at its end
\* returns Ready(None) and sets done, whatever the other two have ready.
C4_AnyExhaustedEnds ==
    (Called /\ \E s \in Sources : Out(s).kind = "End") =>
        (done /\ result = ReadyNone)

\* C4 as amended: a call on an aggregator that is not finished returns
\* Ready(None) and sets done when the first child stream, in the order
\* timeout, network, api, to report something other than not-ready reports
\* its end, whatever the streams after it have ready.  An item or an error of
\* a stream before it is returned instead, and done stays false.
C4_FirstReportedEndEnds ==
    WasLive =>
        /\ EndComesFirst => (done /\ result = ReadyNone)
        /\ ~EndComesFirst => (~done /\ result # ReadyNone)

\* The network stream reported its end to a call in which the timeout stream
\* was not ready and the api stream had an item.
C4_Witness ==
    /\ WasLive
    /\ Out("timeout").kind = "NotReady"
    /\ Out("network").kind = "End"
    /\ Out("api").kind = "Item"
    /\ done
    /\ result = ReadyNone

----------------------------------------------------------------------------
(* C5 *)

\* C5 as stated: if the next outcome of the network stream is an error, a
\* call on an aggregator that is not finished returns that error, returns no
\* Event and leaves done false.
C5_NetworkErrorReturned ==
    (WasLive /\ Out("network").kind = "Err") =>
        /\ result = Failed(Out("network").val)
        /\ emitted = prev.emitted
        /\ ~done

\* C5 as amended: the same, for a call in which the timeout stream reports
\* not-ready.
C5_NetworkErrorAfterIdleTimeout ==
    (WasLive /\ Out("timeout").kind = "NotReady" /\ Out("network").kind = "Err") =>
        /\ result = Failed(Out("network").val)
        /\ emitted = prev.emitted
        /\ ~done

\* The network stream reported its second outcome, an error, to a call in
\* which the timeout stream was not ready and the api stream had an item.
C5_Witness ==
    /\ WasLive
    /\ Out("timeout").kind = "NotReady"
    /\ Out("network") = SrcErr(2)
    /\ Out("api").kind = "Item"
    /\ result = Failed(2)
    /\ ~done

----------------------------------------------------------------------------
(* C6 *)

\* The outcome that decides a call on an aggregator that is not finished:
\* that of the first child stream, in the order timeout, network, api, that
\* is not not-ready, or not-ready if there is none.
Deciding ==
    IF Out("timeout").kind # "NotReady" THEN [src |-> "timeout", out |-> Out("timeout")]
    ELSE IF Out("network").kind # "NotReady" THEN [src |-> "network", out |-> Out("network")]
    ELSE [src |-> "api", out |-> Out("api")]

\* C6: errors never set done and are one-shot.  A call that returns an error
\* returns the error of the deciding child stream, unchanged, and leaves done
\* false; the call after it polls the timeout stream first, as usual, and
\* returns an item, not-ready, the end or another error as the streams'
\* next outcomes decide.
C6_ErrorsOneShot ==
    /\ (Called /\ result.kind = "Err") =>
          /\ ~done
          /\ ~prev.self.done
          /\ Deciding.out = SrcErr(result.err)
    /\ (WasLive /\ Deciding.out.kind = "Err") => result = Failed(Deciding.out.val)
    /\ (Called /\ prev.result.kind = "Err") =>
          /\ Probed("timeout")
          /\ result.kind =
                CASE Deciding.out.kind = "Item"     -> "Item"
                  [] Deciding.out.kind = "NotReady" -> "Pending"
                  [] Deciding.out.kind = "End"      -> "Ended"
                  [] Deciding.out.kind = "Err"      -> "Err"

\* A call returned an error of the network stream, and the call after it
\* returned an item of the timeout stream.
C6_Witness ==
    /\ Called
    /\ prev.result.kind = "Err"
    /\ prev.probes["network"] = 1
    /\ result.kind = "Item"
    /\ result.event.variant = "Timeout"
    /\ ~done

----------------------------------------------------------------------------
(* C7 *)

\* Number of items child stream s has yet to yield.
ItemsLeft(s) == Cardinality({i \in DOMAIN s : s[i].kind = "Item"})

\* Number of items the last call took out of child stream src.
Taken(src) == ItemsLeft(prev.self[src]) - ItemsLeft(Self[src])

\* C7: at most one item per call.  A call takes at most one item out of the
\* three child streams together and returns an Event exactly when it took
\* one; a child stream that had an item ready and was not the one served
\* keeps it and everything after it.
C7_OneItemPerStep ==
    Called =>
        LET taken == Taken("timeout") + Taken("network") + Taken("api")
        IN  /\ taken \in {0, 1}
            /\ result.kind = "Item" <=> taken = 1
            /\ Len(emitted) = Len(prev.emitted) + taken
            /\ result.kind = "Item" => emitted = Append(prev.emitted, result.event)
            /\ \A s \in Sources :
                  (Out(s).kind = "Item" /\ Taken(s) = 0) => Self[s] = prev.self[s]

\* All three child streams had an item ready; the call returned one Event
\* and the network and api items are still there.
C7_Witness ==
    /\ WasLive
    /\ \A s \in Sources : Out(s).kind = "Item"
    /\ result.kind = "Item"
    /\ Len(emitted) = Len(prev.emitted) + 1
    /\ NextOutcome(network).kind = "Item"
    /\ NextOutcome(api).kind = "Item"

----------------------------------------------------------------------------
(* C8 *)

\* C8: if only the api stream has an item ready (the timeout and the network
\* stream report not-ready), the call returns Event::Api of that item and
\* done stays false.
C8_SingleApiItem ==
    ( /\ WasLive
      /\ Out("timeout").kind = "NotReady"
      /\ Out("network").kind = "NotReady"
      /\ Out("api").kind = "Item" ) =>
        /\ Returned("Api", Out("api").val)
        /\ ~done

\* The api stream alone had an item ready and the call returned it.
C8_Witness ==
    /\ WasLive
    /\ Out("timeout").kind = "NotReady"
    /\ Out("network").kind = "NotReady"
    /\ Out("api").kind = "Item"
    /\ result.kind = "Item"
    /\ result.event.variant = "Api"
    /\ ~done

----------------------------------------------------------------------------
(* C9 *)

\* C9: a call on an aggregator that is not finished returns NotReady exactly
\* when all three child streams report not-ready to it; such a call polls
\* each of the three once, takes no item and leaves done false.
C9_PendingIffAllNotReady ==
    WasLive =>
        /\ result = NotReady <=> \A s \in Sources : Out(s).kind = "NotReady"
        /\ result = NotReady =>
              /\ \A s \in Sources : Probed(s) /\ Taken(s) = 0
              /\ emitted = prev.emitted
              /\ ~done

\* A call returned NotReady while items were still to come in a child stream.
C9_Witness ==
    /\ WasLive
    /\ result = NotReady
    /\ \A s \in Sources : Probed(s)
    /\ \E s \in Sources : ItemsLeft(Self[s]) > 0

----------------------------------------------------------------------------
(* C10 *)

\* The scenario: the timeout stream yields T1 and ends, the network stream
\* yields N1, N2 and ends, the api stream yields A1 and ends.
Scenario ==
    new(<<SrcItem(1), SrcEnd>>, <<SrcItem(1), SrcItem(2), SrcEnd>>, <<SrcItem(1), SrcEnd>>)

\* C10: in the scenario the first call returns Event::Timeout(T1), the second
\* and every later call return Ready(None), and N1, N2 and A1 are never
\* returned: they stay in their streams.
C10_ScenarioTrace ==
    start = Scenario =>
        /\ nsteps = 1 => Returned("Timeout", 1)
        /\ nsteps >= 2 => (result = ReadyNone /\ done)
        /\ emitted = (IF nsteps = 0 THEN <<>> ELSE <<[variant |-> "Timeout", val |-> 1]>>)
        /\ network = Scenario.network
        /\ api = Scenario.api

\* The scenario was run for four calls.
C10_Witness ==
    /\ start = Scenario
    /\ nsteps >= 4
    /\ result = ReadyNone
    /\ Len(emitted) = 1
    /\ emitted[1].variant = "Timeout"

----------------------------------------------------------------------------
(* C11 *)

\* The natural order of TimeoutRequests: by deadline, then by token.
NaturalLess(a, b) == a[1] < b[1] \/ (a[1] = b[1] /\ a[2] < b[2])

\* Number of times request r occurs in the sequence q.
Count(q, r) == Cardinality({i \in DOMAIN q : q[i] = r})

\* The deadlines of the requests of q, in order.
Deadlines(q) == [i \in DOMAIN q |-> q[i][1]]

\* C11: the published comparison is the exact reverse of the natural order
\* on (deadline, token), so a request with an earlier deadline compares as
\* greater, and extracting the maximum again and again yields the requests
\* in ascending (deadline, token) order, as a min-queue with the ascending
\* comparator does: what was extracted is ascending, nothing still queued
\* comes before it, and nothing is lost or made up.
C11_ReversedOrder ==
    /\ \A i, j \in DOMAIN heap0 :
          LET a == heap0[i]
              b == heap0[j]
          IN  /\ a[1] < b[1] => cmp(a, b) = "Greater"
              /\ cmp(a, b) = "Greater" <=> NaturalLess(a, b)
              /\ cmp(a, b) = "Less" <=> NaturalLess(b, a)
    /\ \A i, j \in DOMAIN popped : i < j => ~NaturalLess(popped[j], popped[i])
    /\ \A i \in DOMAIN popped : \A j \in DOMAIN heap : ~NaturalLess(heap[j], popped[i])
    /\ Len(popped) + Len(heap) = Len(heap0)
    /\ \A i \in DOMAIN heap0 :
          Count(popped, heap0[i]) + Count(heap, heap0[i]) = Count(heap0, heap0[i])

\* Requests with the deadlines 5, 1, 3 and distinct tokens were inserted in
\* that order and came out with the deadlines 1, 3, 5.
C11_Witness ==
    /\ Deadlines(heap0) = <<5, 1, 3>>
    /\ Cardinality({heap0[i][2] : i \in DOMAIN heap0}) = 3
    /\ Deadlines(popped) = <<1, 3, 5>>
    /\ heap = <<>>

----------------------------------------------------------------------------
(* C12 *)

\* C12: tie-break.  Two requests with the same deadline compare as Equal
\* exactly when their tokens are equal, which is when the requests are equal
\* field by field; with distinct tokens the result is the reverse of the
\* tokens' order.  Requests of one deadline are therefore extracted in
\* ascending token order, whatever order they were inserted in.
C12_TieBreak ==
    /\ \A i, j \in DOMAIN heap0 :
          LET a == heap0[i]
              b == heap0[j]
          IN  a[1] = b[1] =>
                /\ cmp(a, b) = "Equal" <=> a[2] = b[2]
                /\ cmp(a, b) = "Equal" <=> eq(a, b)
                /\ a[2] < b[2] => cmp(a, b) = "Greater"
                /\ a[2] > b[2] => cmp(a, b) = "Less"
    /\ \A i, j \in DOMAIN popped :
          (i < j /\ popped[i][1] = popped[j][1]) => popped[i][2] <= popped[j][2]
    /\ \A i \in DOMAIN popped : \A j \in DOMAIN heap :
          popped[i][1] = heap[j][1] => popped[i][2] <= heap[j][2]

\* Two requests of one deadline were inserted with the greater token first
\* and came out with the smaller token first.
C12_Witness ==
    /\ Len(heap0) >= 2
    /\ heap0[1][1] = heap0[2][1]
    /\ heap0[1][2] > heap0[2][2]
    /\ Len(popped) >= 2
    /\ popped[1] = heap0[2]
    /\ popped[2] = heap0[1]

----------------------------------------------------------------------------
(* C19 *)

\* C19: the published comparison is a total order.  Over the requests the
\* queue was filled with, cmp(a, b) is the reverse of cmp(b, a), a request
\* is Equal to itself and only to requests equal to it, cmp is transitive,
\* and partial_cmp(a, b) is always Some(cmp(a, b)).
C19_TotalOrder ==
    /\ \A i, j \in DOMAIN heap0 :
          LET a == heap0[i]
              b == heap0[j]
              ab == cmp(a, b)
              ba == cmp(b, a)
          IN  /\ ab \in {"Less", "Equal", "Greater"}
              /\ ab = "Less" <=> ba = "Greater"
              /\ ab = "Equal" <=> ba = "Equal"
              /\ cmp(a, a) = "Equal"
              /\ ab = "Equal" <=> a = b
              /\ partial_cmp(a, b).some
              /\ partial_cmp(a, b).val = ab
    /\ \A i, j, k \in DOMAIN heap0 :
          LET ab == cmp(heap0[i], heap0[j])
              bc == cmp(heap0[j], heap0[k])
              ac == cmp(heap0[i], heap0[k])
          IN  /\ (ab = "Less" /\ bc = "Less") => ac = "Less"
              /\ (ab = "Equal" /\ bc = "Equal") => ac = "Equal"
              /\ (ab # "Greater" /\ bc # "Greater") => ac # "Greater"

\* Three different requests, two of them of one deadline, were compared and
\* extracted.
C19_Witness ==
    /\ Len(heap0) = 3
    /\ Cardinality({heap0[i] : i \in DOMAIN heap0}) = 3
    /\ heap0[1][1] = heap0[2][1]
    /\ heap0[3][1] < heap0[1][1]
    /\ cmp(heap0[1], heap0[3]) = "Less"
    /\ Len(popped) = 3

----------------------------------------------------------------------------
(* C14 *)

\* C14: the end of a lower-priority stream is handled like the end of the
\* timeout stream.  If the timeout stream is not ready and the network
\* stream reports its end, the call sets done and returns Ready(None)
\* without polling the api stream; if both are not ready and the api stream
\* reports its end, the call sets done and returns Ready(None).  Ready(None)
\* is returned only by a call that leaves done true.
C14_LowerPriorityEnd ==
    /\ (WasLive /\ Out("timeout").kind = "NotReady" /\ Out("network").kind = "End") =>
          /\ done
          /\ result = ReadyNone
          /\ Probed("network")
          /\ Untouched("api")
    /\ ( /\ WasLive
         /\ Out("timeout").kind = "NotReady"
         /\ Out("network").kind = "NotReady"
         /\ Out("api").kind = "End" ) =>
          /\ done
          /\ result = ReadyNone
          /\ Probed("api")
    /\ (Called /\ result.kind = "Ended") => done

\* The network stream reported its end while the api stream, never polled,
\* had an item ready.
C14_Witness ==
    /\ WasLive
    /\ Out("timeout").kind = "NotReady"
    /\ Out("network").kind = "End"
    /\ Out("api").kind = "Item"
    /\ probes["api"] = 0
    /\ NextOutcome(api).kind = "Item"
    /\ result.kind = "Ended"

----------------------------------------------------------------------------
(* C15 *)

\* C15: an error of a higher-priority stream preempts the streams after it.
\* An error of the timeout stream is returned without polling the network
\* or the api stream; an error of the network stream, reached when the
\* timeout stream is not ready, is returned without polling the api stream;
\* an error of the api stream is returned only by a call in which the
\* timeout and the network stream both report not-ready.
C15_ErrorPreempts ==
    WasLive =>
        /\ Out("timeout").kind = "Err" =>
              /\ result.kind = "Err"
              /\ result.err = Out("timeout").val
              /\ Untouched("network")
              /\ Untouched("api")
        /\ (Out("timeout").kind = "NotReady" /\ Out("network").kind = "Err") =>
              /\ result.kind = "Err"
              /\ result.err = Out("network").val
              /\ Untouched("api")
        /\ (Probed("api") /\ Out("api").kind = "Err") =>
              /\ Out("timeout").kind = "NotReady"
              /\ Out("network").kind = "NotReady"
              /\ result.kind = "Err"
              /\ result.err = Out("api").val
        /\ (Out("api").kind = "Err" /\ ~Probed("api")) => Self["api"] = prev.self["api"]

\* The timeout stream reported an error while the network stream had an
\* item ready and the api stream was at its end.
C15_Witness ==
    /\ WasLive
    /\ Out("timeout").kind = "Err"
    /\ Out("network").kind = "Item"
    /\ Out("api").kind = "End"
    /\ result.kind = "Err"
    /\ ~done

----------------------------------------------------------------------------
(* C16 *)

\* C16: a call on a finished aggregator polls none of the child streams:
\* their contents and probe counts are as before the call, and no Event is
\* returned.
C16_NoProbeAfterEnd ==
    (Called /\ prev.self.done) =>
        /\ \A s \in Sources : Untouched(s)
        /\ emitted = prev.emitted

\* Two calls were made on a finished aggregator while the network and the
\* api stream still held items.
C16_Witness ==
    /\ Called
    /\ prev.self.done
    /\ prev.result.kind = "Ended"
    /\ ItemsLeft(network) > 0
    /\ ItemsLeft(api) > 0
    /\ result.kind = "Ended"

----------------------------------------------------------------------------
(* C17 *)

\* The values of the items of child stream s, in order.
ItemVals(s) ==
    LET IsItem(o) == o.kind = "Item"
        items == SelectSeq(s, IsItem)
    IN  [i \in DOMAIN items |-> items[i].val]

\* The values of the Events of the given variant returned so far, in order.
EmittedVals(variant) ==
    LET IsVariant(ev) == ev.variant = variant
        evs == SelectSeq(emitted, IsVariant)
    IN  [i \in DOMAIN evs |-> evs[i].val]

\* The Event variant that belongs to each child stream.
VariantOf(src) ==
    CASE src = "timeout" -> "Timeout"
      [] src = "network" -> "Network"
      [] src = "api"     -> "Api"

\* C17: no loss, no duplication, no reordering.  The Events of one variant
\* returned so far are exactly the items taken out of its child stream so
\* far, in the stream's order and with their values: followed by the items
\* still in the stream they make up the items the stream started with.
\* Every Event has one of the three variants, and the item a call takes is
\* the Event that call returns.
C17_NoLossNoDup ==
    /\ \A src \in Sources :
          ItemVals(start[src]) = EmittedVals(VariantOf(src)) \o ItemVals(Self[src])
    /\ \A i \in DOMAIN emitted : emitted[i].variant \in {"Timeout", "Network", "Api"}
    /\ \A src \in Sources :
          (Called /\ Taken(src) = 1) =>
              /\ Out(src).kind = "Item"
              /\ Returned(VariantOf(src), Out(src).val)

\* A network item, a timeout item and a second network item were returned,
\* in that order.
C17_Witness ==
    /\ Len(emitted) = 3
    /\ emitted[1].variant = "Network"
    /\ emitted[2].variant = "Timeout"
    /\ EmittedVals("Network") = <<1, 2>>
    /\ ItemVals(start["network"]) = <<1, 2>>

----------------------------------------------------------------------------
(* C13 *)

\* The timeout stream has an item ready.
TimeoutReady == NextOutcome(timeout).kind = "Item"

\* The last call returned the Event of the given variant wrapping item
\* (Returned, written without the history SpecLive does not keep).
Delivered(variant, item) ==
    result = [kind |-> "Item", event |-> [variant |-> variant, val |-> item], err |-> 0]

\* C13: starvation is possible.  In every run in which the timeout stream
\* always has an item ready, however long the driver goes on calling poll,
\* every call returns a timeout Event and the network and the api stream are
\* never polled, so an item ready in them is never delivered.
C13_Starvation ==
    []TimeoutReady =>
        [](/\ result = NotCalled \/ (result.kind = "Item" /\ result.event.variant = "Timeout")
           /\ probes["network"] = 0
           /\ probes["api"] = 0
           /\ ~done)

\* Calls were made and returned timeout Events, the timeout stream is ready
\* again, and the network and the api stream, never polled, have an item
\* ready.
C13_Witness ==
    /\ probes["timeout"] > 0
    /\ probes["network"] = 0
    /\ probes["api"] = 0
    /\ result.kind = "Item"
    /\ result.event.variant = "Timeout"
    /\ TimeoutReady
    /\ NextOutcome(network).kind = "Item"
    /\ NextOutcome(api).kind = "Item"

\* What C13 denies: that a network item that is ready is delivered sooner
\* or later even when the timeout stream is always ready.  It fails in
\* SpecLive, and the run that refutes it is a run of C13: the driver calls
\* poll for ever, the timeout stream is ready at every call and the network
\* item is never delivered.
C13_NetworkServedAnyway ==
    []TimeoutReady =>
        \A v \in LiveItems :
            (NextOutcome(network) = SrcItem(v)) ~> Delivered("Network", v)

----------------------------------------------------------------------------
(* C18 *)

\* No child stream holds an error or its end.
NoFailure ==
    \A src \in Sources : \A i \in DOMAIN Self[src] : Self[src][i].kind = "Item"

\* A call of poll to which the timeout stream reports not-ready.
TimeoutIdleStep == StepLive /\ NextOutcome(timeout).kind = "NotReady"

\* A call of poll to which the timeout and the network stream report not-ready.
BothIdleStep ==
    /\ StepLive
    /\ NextOutcome(timeout).kind = "NotReady"
    /\ NextOutcome(network).kind = "NotReady"

\* C18: conditional liveness.  If the driver keeps calling poll, no stream
\* ever fails or ends, and the timeout stream reports not-ready to
\* infinitely many calls, every item that becomes ready in the network
\* stream is returned as Event::Network; if infinitely many calls find both
\* the timeout and the network stream not ready, every item that becomes
\* ready in the api stream is returned as Event::Api.
C18_ConditionalLiveness ==
    /\ ([]NoFailure /\ []<><<TimeoutIdleStep>>_vars) =>
          \A v \in LiveItems :
              (NextOutcome(network) = SrcItem(v)) ~> Delivered("Network", v)
    /\ ([]NoFailure /\ []<><<BothIdleStep>>_vars) =>
          \A v \in LiveItems :
              (NextOutcome(api) = SrcItem(v)) ~> Delivered("Api", v)

\* An api item was delivered after all three streams had been polled, and
\* items are ready again in the timeout and the network stream.
C18_Witness ==
    /\ NoFailure
    /\ \E v \in LiveItems : Delivered("Api", v)
    /\ \A s \in Sources : probes[s] > 0
    /\ NextOutcome(timeout).kind = "Item"
    /\ NextOutcome(network).kind = "Item"

====
